---------------------------- MODULE Spec2Model ----------------------------
(***************************************************************************)
(* A model of video2subs (src/main.py): format_timestamp, the two subtitle *)
(* writers generate_srt and generate_vtt, and the pipeline                 *)
(* create_subtitles.                                                       *)
(*                                                                         *)
(* Strings are sequences of one-character strings, so that split, zfill,   *)
(* replace and strip are modelled by what they do to the characters.       *)
(* A float number of seconds is the record [kind, sec, frac]: for a finite *)
(* value, sec + frac / 10^7 with 0 <= frac < 10^7 (sec is the floor, also  *)
(* for negative values); kind is "inf", "-inf" or "nan" otherwise.         *)
(***************************************************************************)
EXTENDS Integers, Sequences, FiniteSets, TLC

VARIABLES
    entry,        \* the function of main.py that was called
    pc,           \* the position of the call
    seconds,      \* format_timestamp: argument seconds
    format_type,  \* format_timestamp: argument format_type
    result,       \* format_timestamp: what the call returned or raised
    is_audio,     \* create_subtitles: video_path has an audio media type
    model,        \* create_subtitles: local name model
    tmp_audio,    \* the temporary .wav file: on disk, ever created, ever deleted
    extract_calls,\* number of ffmpeg subprocess invocations attempted
    audio_path,   \* the path handed to model.transcribe
    segments,     \* the segment iterator: [rest, err]
    produced,     \* the segments the iterator was created to produce
    segment_id,   \* generate_srt: local name segment_id
    files,        \* the subtitle files on disk: "srt", "vtt" -> [exists, content]
    old_files,    \* the subtitle files as they were when the call started
    exc,          \* the exception in flight
    failed_at,    \* the step whose failure raised the first exception
    printed       \* the messages printed so far

vars == <<entry, pc, seconds, format_type, result, is_audio, model, tmp_audio,
          extract_calls, audio_path, segments, produced, segment_id, files,
          old_files, exc, failed_at, printed>>

---------------------------------------------------------------------------
(* Bounds *)

\* The longest segment sequence an iterator produces.
MaxSegs == 3

---------------------------------------------------------------------------
(* Characters and strings *)

Digits == <<"0", "1", "2", "3", "4", "5", "6", "7", "8", "9">>

\* str(n) for an int n
RECURSIVE NatStr(_)
NatStr(n) == IF n < 10 THEN <<Digits[n + 1]>>
             ELSE NatStr(n \div 10) \o <<Digits[(n % 10) + 1]>>

IntStr(n) == IF n < 0 THEN <<"-">> \o NatStr(-n) ELSE NatStr(n)

\* s.zfill(width): zeros on the left, after a leading sign
RECURSIVE Zeros(_)
Zeros(k) == IF k <= 0 THEN <<>> ELSE <<"0">> \o Zeros(k - 1)

zfill(s, width) ==
    IF Len(s) >= width THEN s
    ELSE IF Len(s) > 0 /\ Head(s) \in {"+", "-"}
         THEN <<Head(s)>> \o Zeros(width - Len(s)) \o Tail(s)
         ELSE Zeros(width - Len(s)) \o s

\* "%02d" % n and "%06d" % n, for n >= 0
PadInt(n, width) == zfill(IntStr(n), width)

\* s.split(sep)[0]: the part before the first sep
RECURSIVE SplitFirst(_, _)
SplitFirst(s, sep) ==
    IF s = <<>> \/ Head(s) = sep THEN <<>>
    ELSE <<Head(s)>> \o SplitFirst(Tail(s), sep)

\* s.replace(old, new) for one-character old and new
replace(s, old, new) == [i \in 1..Len(s) |-> IF s[i] = old THEN new ELSE s[i]]

Whitespace == {" ", "\n", "\t"}

RECURSIVE LStrip(_)
LStrip(s) == IF s # <<>> /\ Head(s) \in Whitespace THEN LStrip(Tail(s)) ELSE s

RECURSIVE RStrip(_)
RStrip(s) == IF s # <<>> /\ s[Len(s)] \in Whitespace
             THEN RStrip(SubSeq(s, 1, Len(s) - 1)) ELSE s

\* s.strip()
strip(s) == RStrip(LStrip(s))

---------------------------------------------------------------------------
(* datetime.timedelta(seconds=...) and str(timedelta) *)

Finite(sec, frac) == [kind |-> "finite", sec |-> sec, frac |-> frac]

NonFinite(kind) == [kind |-> kind, sec |-> 0, frac |-> 0]

\* The fraction, in units of 10^-7 s, rounded to microseconds, ties to even.
RoundHalfEven(frac) ==
    LET q == frac \div 10
        r == frac % 10
    IN  IF r > 5 \/ (r = 5 /\ q % 2 = 1) THEN q + 1 ELSE q

\* timedelta(seconds=s) normalised to days, seconds and microseconds
timedelta(s) ==
    LET us    == RoundHalfEven(s.frac)
        whole == IF us = 1000000 THEN s.sec + 1 ELSE s.sec
    IN  [days         |-> whole \div 86400,
         seconds      |-> whole % 86400,
         microseconds |-> IF us = 1000000 THEN 0 ELSE us]

\* str(delta)
TimedeltaStr(delta) ==
    LET mm0  == delta.seconds \div 60
        ss   == delta.seconds % 60
        hh   == mm0 \div 60
        mm   == mm0 % 60
        s    == IntStr(hh) \o <<":">> \o PadInt(mm, 2) \o <<":">> \o PadInt(ss, 2)
        abs  == IF delta.days < 0 THEN -delta.days ELSE delta.days
        days == IF delta.days # 0
                THEN IntStr(delta.days) \o <<" ", "d", "a", "y">>
                     \o (IF abs # 1 THEN <<"s">> ELSE <<>>) \o <<",", " ">>
                ELSE <<>>
        us   == IF delta.microseconds # 0
                THEN <<".">> \o PadInt(delta.microseconds, 6)
                ELSE <<>>
    IN  days \o s \o us

---------------------------------------------------------------------------
(* format_timestamp *)

Returned(v) == [ok |-> TRUE, val |-> v, exc |-> "none"]

Raised(e) == [ok |-> FALSE, val |-> <<>>, exc |-> e]

NoResult == [ok |-> FALSE, val |-> <<>>, exc |-> "none"]

\* int(delta.microseconds / 1000)
Milliseconds(delta) == delta.microseconds \div 1000

format_timestamp(s, ftype) ==
    IF s.kind = "nan" THEN Raised("ValueError")
    ELSE IF s.kind # "finite" THEN Raised("OverflowError")
    ELSE
      LET delta        == timedelta(s)
          time_str     == zfill(SplitFirst(TimedeltaStr(delta), "."), 8)
          milliseconds == zfill(IntStr(Milliseconds(delta)), 3)
      IN  IF ftype = "srt"
          THEN Returned(replace(time_str, ":", ",") \o <<",">> \o milliseconds)
          ELSE IF ftype = "vtt"
          THEN Returned(time_str \o <<".">> \o milliseconds)
          ELSE Raised("ValueError")

---------------------------------------------------------------------------
(* Segments and the segment iterator *)

Segment(start, end, text) == [start |-> start, end |-> end, text |-> text]

\* The segments an iterator may hold: two with identical spans, one that
\* overlaps them and starts before the second one ends; texts carry leading
\* and trailing whitespace.
SegmentChoices ==
    { Segment(Finite(0, 5000000), Finite(1, 8000000), <<" ", "H", "i">>),
      Segment(Finite(0, 5000000), Finite(1, 8000000), <<"Y", "o", "\n">>),
      Segment(Finite(1, 0), Finite(3661, 2500000), <<"o", " ", "k">>) }

RECURSIVE SeqsUpTo(_, _)
SeqsUpTo(S, n) ==
    IF n = 0 THEN {<<>>}
    ELSE LET shorter == SeqsUpTo(S, n - 1)
         IN  shorter \cup {Append(q, x) : q \in shorter, x \in S}

SegmentSeqs == SeqsUpTo(SegmentChoices, MaxSegs)

\* The exception classes the except clauses of create_subtitles catch.
CaughtErrors == {"FileNotFoundError", "RuntimeError"}

\* What the engine may raise: a class the except clauses catch, or one they
\* do not.
EngineErrors == {"RuntimeError", "ValueError"}

\* The failures extract_audio raises.
ExtractErrors == {"FileNotFoundError", "RuntimeError"}

\* A forward-only iterator: rest is what it still yields, err what it raises
\* once rest is used up ("none": it ends normally).
Iterator(seq, err) == [rest |-> seq, err |-> err]

Exhausted == Iterator(<<>>, "none")

\* next(it): the outcome and the iterator afterwards
IterNext(it) ==
    IF it.rest # <<>>
    THEN [kind |-> "yield", seg |-> Head(it.rest), exc |-> "none",
          it |-> Iterator(Tail(it.rest), it.err)]
    ELSE IF it.err # "none"
    THEN [kind |-> "raise", seg |-> Head(<<Segment(Finite(0, 0), Finite(0, 0), <<>>)>>),
          exc |-> it.err, it |-> Exhausted]
    ELSE [kind |-> "stop", seg |-> Head(<<Segment(Finite(0, 0), Finite(0, 0), <<>>)>>),
          exc |-> "none", it |-> Exhausted]

---------------------------------------------------------------------------
(* Files *)

NoFile == [exists |-> FALSE, content |-> <<>>]

File(content) == [exists |-> TRUE, content |-> content]

\* What a file may hold before the call.
OldContent == <<"o", "l", "d", "\n">>

PriorFiles == [{"srt", "vtt"} -> {NoFile, File(OldContent)}]

\* open(path, "a"): the file keeps what it held
OpenAppend(f) == File(f.content)

\* open(path, "w"): the file exists and is empty
OpenW(f) == File(<<>>)

\* file.write(s)
Write(f, s) == File(f.content \o s)

Arrow == <<" ", "-", "-", ">", " ">>

\* The three writes of generate_srt for one segment.
SrtCue(id, start_time, end_time, text) ==
    IntStr(id) \o <<"\n">>
    \o start_time \o Arrow \o end_time \o <<"\n">>
    \o strip(text) \o <<"\n", "\n">>

VttHeader == <<"W", "E", "B", "V", "T", "T", "\n", "\n">>

\* The two writes of generate_vtt for one segment.
VttCue(start_time, end_time, text) ==
    start_time \o Arrow \o end_time \o <<"\n">>
    \o strip(text) \o <<"\n", "\n">>

\* segment_id is not incremented
StuckSegmentId(id) == id

\* segment_id += 1
NextSegmentId(id) == id + 1

---------------------------------------------------------------------------
(* The calls *)

\* The seconds values format_timestamp is called with directly.
WholeSeconds == {-90000, -1, 0, 1, 59, 60, 3599, 3661, 35999, 36000, 86399, 86400, 90061}

Fractions == {0, 4999, 5000, 78125, 2500000, 5000000, 9994999, 9995000, 9999996}

FormatInputs ==
    {Finite(w, f) : w \in WholeSeconds, f \in Fractions}
    \cup {NonFinite("inf"), NonFinite("-inf"), NonFinite("nan")}

FormatTypes == {"srt", "vtt", "ass"}

NoTmp == [on_disk |-> FALSE, created |-> FALSE, deleted |-> FALSE]

\* format_timestamp(seconds, format_type) is called.
InitFormat ==
    /\ entry = "format_timestamp"
    /\ pc = "format"
    /\ seconds \in FormatInputs
    /\ format_type \in FormatTypes
    /\ result = NoResult
    /\ is_audio = FALSE
    /\ model = "unbound"
    /\ tmp_audio = NoTmp
    /\ extract_calls = 0
    /\ audio_path = "none"
    /\ segments = Exhausted
    /\ produced = <<>>
    /\ segment_id = 0
    /\ files = [f \in {"srt", "vtt"} |-> NoFile]
    /\ old_files = files
    /\ exc = "none"
    /\ failed_at = "none"
    /\ printed = <<>>

\* generate_srt(segments, path) or generate_vtt(segments, path) is called
\* with a fresh iterator, on files that may exist.
InitWriter ==
    /\ entry \in {"generate_srt", "generate_vtt"}
    /\ pc = IF entry = "generate_srt" THEN "srt_open" ELSE "vtt_open"
    /\ produced \in SegmentSeqs
    /\ \E e \in {"none"} \cup EngineErrors : segments = Iterator(produced, e)
    /\ files \in PriorFiles
    /\ old_files = files
    /\ seconds = Finite(0, 0)
    /\ format_type = "srt"
    /\ result = NoResult
    /\ is_audio = FALSE
    /\ model = "unbound"
    /\ tmp_audio = NoTmp
    /\ extract_calls = 0
    /\ audio_path = "none"
    /\ segment_id = 0
    /\ exc = "none"
    /\ failed_at = "none"
    /\ printed = <<>>

\* create_subtitles(video_path, output_base, ...) is called.
InitPipeline ==
    /\ entry = "create_subtitles"
    /\ pc = "load_model"
    /\ is_audio \in BOOLEAN
    /\ files \in PriorFiles
    /\ old_files = files
    /\ seconds = Finite(0, 0)
    /\ format_type = "srt"
    /\ result = NoResult
    /\ model = "unbound"
    /\ tmp_audio = NoTmp
    /\ extract_calls = 0
    /\ audio_path = "none"
    /\ segments = Exhausted
    /\ produced = <<>>
    /\ segment_id = 0
    /\ exc = "none"
    /\ failed_at = "none"
    /\ printed = <<>>

Init == InitFormat \/ InitWriter \/ InitPipeline

---------------------------------------------------------------------------
(* format_timestamp, called directly *)

FormatTimestamp ==
    /\ pc = "format"
    /\ result' = format_timestamp(seconds, format_type)
    /\ pc' = IF result'.ok THEN "returned" ELSE "raised"
    /\ exc' = result'.exc
    /\ UNCHANGED <<old_files, entry, seconds, format_type, is_audio, model, tmp_audio,
                   extract_calls, audio_path, segments, produced, segment_id,
                   files, failed_at, printed>>

---------------------------------------------------------------------------
(* generate_srt and generate_vtt *)

\* Where control goes when a writer returns.
AfterWriter(next) == IF entry = "create_subtitles" THEN next ELSE "returned"

\* Where control goes when an exception leaves a writer: in create_subtitles
\* it leaves the with block of the temporary file first.
AfterRaise == IF entry = "create_subtitles" THEN "tmp_close" ELSE "raised"

\* with open(output_srt_path, "w") ...: segment_id = 1
SrtOpen ==
    /\ pc = "srt_open"
    /\ files' = [files EXCEPT !["srt"] = OpenW(@)]
    /\ segment_id' = 1
    /\ pc' = "srt_loop"
    /\ UNCHANGED <<old_files, entry, seconds, format_type, result, is_audio, model,
                   tmp_audio, extract_calls, audio_path, segments, produced,
                   exc, failed_at, printed>>

\* One round of "for segment in segments" in generate_srt: the body for the
\* segment the iterator yields, or the end of the loop and the print, or the
\* exception the iterator raises.
SrtStep ==
    /\ pc = "srt_loop"
    /\ LET n          == IterNext(segments)
           start_time == format_timestamp(n.seg.start, "srt")
           end_time   == format_timestamp(n.seg.end, "srt")
           formatted  == start_time.ok /\ end_time.ok
       IN  /\ segments' = n.it
           /\ files' = IF n.kind = "yield" /\ formatted
                       THEN [files EXCEPT !["srt"] =
                               Write(@, SrtCue(segment_id, start_time.val,
                                               end_time.val, n.seg.text))]
                       ELSE files
           /\ segment_id' = IF n.kind = "yield" /\ formatted
                            THEN NextSegmentId(segment_id) ELSE segment_id
           /\ exc' = IF n.kind = "raise" THEN n.exc
                     ELSE IF n.kind = "yield" /\ ~start_time.ok THEN start_time.exc
                     ELSE IF n.kind = "yield" /\ ~end_time.ok THEN end_time.exc
                     ELSE exc
           /\ failed_at' = IF n.kind = "raise" THEN "iterate"
                           ELSE IF n.kind = "yield" /\ ~formatted THEN "format"
                           ELSE failed_at
           /\ printed' = IF n.kind = "stop" THEN Append(printed, "srt_generated")
                         ELSE printed
           /\ pc' = IF n.kind = "stop" THEN AfterWriter("vtt_open")
                    ELSE IF n.kind = "yield" /\ formatted THEN "srt_loop"
                    ELSE AfterRaise
    /\ UNCHANGED <<old_files, entry, seconds, format_type, result, is_audio, model,
                   tmp_audio, extract_calls, audio_path, produced>>

\* with open(output_vtt_path, "w") ...: vtt_file.write("WEBVTT\n\n")
VttOpen ==
    /\ pc = "vtt_open"
    /\ files' = [files EXCEPT !["vtt"] = Write(OpenW(@), VttHeader)]
    /\ pc' = "vtt_loop"
    /\ UNCHANGED <<old_files, entry, seconds, format_type, result, is_audio, model,
                   tmp_audio, extract_calls, audio_path, segments, produced,
                   segment_id, exc, failed_at, printed>>

\* One round of "for segment in segments" in generate_vtt.
VttStep ==
    /\ pc = "vtt_loop"
    /\ LET n          == IterNext(segments)
           start_time == format_timestamp(n.seg.start, "vtt")
           end_time   == format_timestamp(n.seg.end, "vtt")
           formatted  == start_time.ok /\ end_time.ok
       IN  /\ segments' = n.it
           /\ files' = IF n.kind = "yield" /\ formatted
                       THEN [files EXCEPT !["vtt"] =
                               Write(@, VttCue(start_time.val, end_time.val,
                                               n.seg.text))]
                       ELSE files
           /\ exc' = IF n.kind = "raise" THEN n.exc
                     ELSE IF n.kind = "yield" /\ ~start_time.ok THEN start_time.exc
                     ELSE IF n.kind = "yield" /\ ~end_time.ok THEN end_time.exc
                     ELSE exc
           /\ failed_at' = IF n.kind = "raise" THEN "iterate"
                           ELSE IF n.kind = "yield" /\ ~formatted THEN "format"
                           ELSE failed_at
           /\ printed' = IF n.kind = "stop" THEN Append(printed, "vtt_generated")
                         ELSE printed
           /\ pc' = IF n.kind = "stop" THEN AfterWriter("report")
                    ELSE IF n.kind = "yield" /\ formatted THEN "vtt_loop"
                    ELSE AfterRaise
    /\ UNCHANGED <<old_files, entry, seconds, format_type, result, is_audio, model,
                   tmp_audio, extract_calls, audio_path, produced, segment_id>>

---------------------------------------------------------------------------
(* create_subtitles *)

\* model = WhisperModel(...) returns the engine handle.
LoadModel ==
    /\ pc = "load_model"
    /\ model' = "bound"
    /\ pc' = "tmp_open"
    /\ UNCHANGED <<old_files, entry, seconds, format_type, result, is_audio, tmp_audio,
                   extract_calls, audio_path, segments, produced, segment_id,
                   files, exc, failed_at, printed>>

\* WhisperModel(...) raises: model is never assigned.
LoadModelFails ==
    /\ pc = "load_model"
    /\ \E e \in EngineErrors : exc' = e
    /\ failed_at' = "load"
    /\ pc' = "except"
    /\ UNCHANGED <<old_files, entry, seconds, format_type, result, is_audio, model,
                   tmp_audio, extract_calls, audio_path, segments, produced,
                   segment_id, files, printed>>

\* with tempfile.NamedTemporaryFile(suffix=".wav", delete=True) as tmp_audio
TmpOpen ==
    /\ pc = "tmp_open"
    /\ tmp_audio' = [tmp_audio EXCEPT !.on_disk = TRUE, !.created = TRUE]
    /\ pc' = "extract"
    /\ UNCHANGED <<old_files, entry, seconds, format_type, result, is_audio, model,
                   extract_calls, audio_path, segments, produced, segment_id,
                   files, exc, failed_at, printed>>

\* extract_audio(video_path, temp_audio_path): ffmpeg runs and succeeds.
ExtractAudio ==
    /\ pc = "extract"
    /\ extract_calls' = extract_calls + 1
    /\ printed' = Append(printed, "audio_extracted")
    /\ pc' = "transcribe"
    /\ UNCHANGED <<old_files, entry, seconds, format_type, result, is_audio, model,
                   tmp_audio, audio_path, segments, produced, segment_id,
                   files, exc, failed_at>>

\* extract_audio raises: ffmpeg is not found (FileNotFoundError) or exits
\* with a non-zero status (RuntimeError).
ExtractAudioFails ==
    /\ pc = "extract"
    /\ extract_calls' = extract_calls + 1
    /\ \E e \in ExtractErrors : exc' = e
    /\ failed_at' = "extract"
    /\ pc' = "tmp_close"
    /\ UNCHANGED <<old_files, entry, seconds, format_type, result, is_audio, model,
                   tmp_audio, audio_path, segments, produced, segment_id,
                   files, printed>>

\* transcribe_audio(model, temp_audio_path, language) returns the lazy
\* segment sequence, which may still fail while it is iterated.
TranscribeAudio ==
    /\ pc = "transcribe"
    /\ audio_path' = "temp"
    /\ produced' \in SegmentSeqs
    /\ \E e \in {"none"} \cup EngineErrors : segments' = Iterator(produced', e)
    /\ pc' = "srt_open"
    /\ UNCHANGED <<old_files, entry, seconds, format_type, result, is_audio, model,
                   tmp_audio, extract_calls, segment_id, files, exc,
                   failed_at, printed>>

\* model.transcribe raises at once.
TranscribeAudioFails ==
    /\ pc = "transcribe"
    /\ audio_path' = "temp"
    /\ \E e \in EngineErrors : exc' = e
    /\ failed_at' = "transcribe"
    /\ pc' = "tmp_close"
    /\ UNCHANGED <<old_files, entry, seconds, format_type, result, is_audio, model,
                   tmp_audio, extract_calls, segments, produced, segment_id,
                   files, printed>>

\* print(detected language)
Report ==
    /\ pc = "report"
    /\ printed' = Append(printed, "language")
    /\ pc' = "tmp_close"
    /\ UNCHANGED <<old_files, entry, seconds, format_type, result, is_audio, model,
                   tmp_audio, extract_calls, audio_path, segments, produced,
                   segment_id, files, exc, failed_at>>

\* The with block of the temporary file is left, normally or by an
\* exception: the file is deleted.
TmpClose ==
    /\ pc = "tmp_close"
    /\ tmp_audio' = [tmp_audio EXCEPT !.on_disk = FALSE, !.deleted = TRUE]
    /\ pc' = IF exc = "none" THEN "finally" ELSE "except"
    /\ UNCHANGED <<old_files, entry, seconds, format_type, result, is_audio, model,
                   extract_calls, audio_path, segments, produced, segment_id,
                   files, exc, failed_at, printed>>

\* except FileNotFoundError / except RuntimeError: print the error; any
\* other exception stays in flight.
Except ==
    /\ pc = "except"
    /\ exc' = IF exc \in CaughtErrors THEN "none" ELSE exc
    /\ printed' = IF exc \in CaughtErrors THEN Append(printed, "error") ELSE printed
    /\ pc' = "finally"
    /\ UNCHANGED <<old_files, entry, seconds, format_type, result, is_audio, model,
                   tmp_audio, extract_calls, audio_path, segments, produced,
                   segment_id, files, failed_at>>

\* finally: del model. Deleting a name that was never bound raises
\* UnboundLocalError, which replaces whatever was in flight.
Finally ==
    /\ pc = "finally"
    /\ model' = IF model = "bound" THEN "released" ELSE model
    /\ exc' = IF model = "bound" THEN exc ELSE "UnboundLocalError"
    /\ pc' = IF exc' = "none" THEN "returned" ELSE "raised"
    /\ UNCHANGED <<old_files, entry, seconds, format_type, result, is_audio, tmp_audio,
                   extract_calls, audio_path, segments, produced, segment_id,
                   files, failed_at, printed>>

---------------------------------------------------------------------------

Next ==
    \/ FormatTimestamp
    \/ SrtOpen
    \/ SrtStep
    \/ VttOpen
    \/ VttStep
    \/ LoadModel
    \/ LoadModelFails
    \/ TmpOpen
    \/ ExtractAudio
    \/ ExtractAudioFails
    \/ TranscribeAudio
    \/ TranscribeAudioFails
    \/ Report
    \/ TmpClose
    \/ Except
    \/ Finally

Spec == Init /\ [][Next]_vars

---------------------------------------------------------------------------
(* What the properties read from a state *)

\* s.split("\n"): the pieces between the line feeds
SplitLines(s) ==
    LET feeds  == {i \in 1..Len(s) : s[i] = "\n"}
        \* the position of the k-th line feed; 0 and Len(s) + 1 at the ends
        Feed(k) == IF k = 0 THEN 0
                   ELSE IF k > Cardinality(feeds) THEN Len(s) + 1
                   ELSE CHOOSE i \in feeds : Cardinality({j \in feeds : j < i}) = k - 1
    IN  [k \in 1..(Cardinality(feeds) + 1) |-> SubSeq(s, Feed(k - 1) + 1, Feed(k) - 1)]

DigitSet == {Digits[i] : i \in 1..10}

\* HH:MM:SS<sep>mmm
ClockShape(s, sep) ==
    /\ Len(s) = 12
    /\ \A i \in {1, 2, 4, 5, 7, 8, 10, 11, 12} : s[i] \in DigitSet
    /\ s[3] = ":"
    /\ s[6] = ":"
    /\ s[9] = sep

\* The direct call of format_timestamp is over.
FormatCallDone == entry = "format_timestamp" /\ pc \in {"returned", "raised"}

NonNegative(s) == s.kind = "finite" /\ s.sec >= 0

\* a < b for finite seconds values
TimeLess(a, b) == a.sec < b.sec \/ (a.sec = b.sec /\ a.frac < b.frac)

\* The fraction, in units of 10^-7 s, rounded to the nearest millisecond; at
\* an exact tie both half-up and half-to-even are accepted.
NearestMs(frac) ==
    LET q == frac \div 10000
        r == frac % 10000
    IN  IF r < 5000 THEN {q}
        ELSE IF r > 5000 THEN {q + 1}
        ELSE IF q % 2 = 0 THEN {q, q + 1} ELSE {q + 1}

\* The last n characters of s.
Last(s, n) == SubSeq(s, Len(s) - n + 1, Len(s))

\* create_subtitles is over.
PipelineDone == entry = "create_subtitles" /\ pc \in {"returned", "raised"}

Said(msg) == \E i \in 1..Len(printed) : printed[i] = msg

\* The number of segments the iterator has yielded so far.
Consumed == Len(produced) - Len(segments.rest)

---------------------------------------------------------------------------
(* C1 *)

\* C1: for every seconds >= 0, format_timestamp(seconds, "srt") returns a
\* string of the shape HH:MM:SS,mmm, format_timestamp(seconds, "vtt") the
\* same string with "." before the milliseconds, and 3661.25 gives
\* "01:01:01,250" and "01:01:01.250".
C1_FixedWidthClock ==
    (FormatCallDone /\ NonNegative(seconds) /\ format_type \in {"srt", "vtt"})
    => /\ result.ok
       /\ ClockShape(result.val, IF format_type = "srt" THEN "," ELSE ".")
       /\ format_timestamp(seconds, "vtt").val
            = [format_timestamp(seconds, "srt").val EXCEPT ![9] = "."]
       /\ (seconds = Finite(3661, 2500000) /\ format_type = "srt")
            => result.val = <<"0", "1", ":", "0", "1", ":", "0", "1", ",", "2", "5", "0">>
       /\ (seconds = Finite(3661, 2500000) /\ format_type = "vtt")
            => result.val = <<"0", "1", ":", "0", "1", ":", "0", "1", ".", "2", "5", "0">>

---------------------------------------------------------------------------
(* C2 *)

\* C2: format_timestamp rounds the fraction of the seconds to the nearest
\* millisecond and carries into the seconds field when the rounding reaches
\* 1000: the millisecond field (the last three characters) and the seconds
\* field (the two characters before the separator) are those of the rounded
\* value, whatever the separators; 0.9995 gives seconds 01 and milliseconds
\* 000.
C2_RoundsWithCarry ==
    (FormatCallDone /\ NonNegative(seconds) /\ format_type \in {"srt", "vtt"})
    => /\ result.ok
       /\ \E ms \in NearestMs(seconds.frac) :
            /\ Last(result.val, 3) = PadInt(ms % 1000, 3)
            /\ SubSeq(Last(result.val, 6), 1, 2)
                 = PadInt((seconds.sec + (ms \div 1000)) % 60, 2)

---------------------------------------------------------------------------
(* C10 *)

\* C10: format_timestamp fails with an error for every negative or
\* non-finite seconds value and returns no timestamp string for it, for the
\* srt and the vtt style.
C10_RejectsNegativeAndNonFinite ==
    (FormatCallDone /\ ~NonNegative(seconds) /\ format_type \in {"srt", "vtt"})
    => (~result.ok /\ pc = "raised")

---------------------------------------------------------------------------
(* C3 *)

\* C3: when create_subtitles has written both formats from one
\* transcription, the VTT file holds the header and then one cue (timing
\* line, trimmed text, blank line) per segment the engine produced, in
\* engine order: as many cues as the SRT file holds.
C3_VttHasEveryCue ==
    (entry = "create_subtitles" /\ Said("srt_generated") /\ Said("vtt_generated"))
    => LET lines == SplitLines(files["vtt"].content)
           n     == Len(produced)
       IN  /\ Len(lines) = 3 + 3 * n
           /\ \A i \in 1..n :
                /\ lines[3 * i] = format_timestamp(produced[i].start, "vtt").val
                                  \o <<" ", "-", "-", ">", " ">>
                                  \o format_timestamp(produced[i].end, "vtt").val
                /\ lines[3 * i + 1] = strip(produced[i].text)
                /\ lines[3 * i + 2] = <<>>
           /\ Len(SplitLines(files["srt"].content)) = 1 + 4 * n

---------------------------------------------------------------------------
(* C4 *)

\* C4: if model loading, audio extraction or transcription fails during
\* create_subtitles (also when the failure surfaces while the lazy segment
\* sequence is iterated), then at the end of the run neither subtitle file
\* has been created, truncated or partially written: both are as they were.
C4_NoSubtitleFileOnFailure ==
    (PipelineDone /\ failed_at \in {"load", "extract", "transcribe", "iterate"})
    => files = old_files

---------------------------------------------------------------------------
(* C5 *)

\* C5: on every exit path of create_subtitles the cleanup step does not
\* itself raise, the engine handle is released (or was never acquired) and
\* no temporary waveform file is left on disk.
C5_CleanupNeverRaises ==
    PipelineDone
    => /\ exc # "UnboundLocalError"
       /\ model # "bound"
       /\ ~tmp_audio.on_disk

---------------------------------------------------------------------------
(* C6 *)

\* C6: when the input path is an audio container, create_subtitles invokes
\* no extraction subprocess, never creates or deletes a temporary waveform
\* file, and passes the original input path to the transcription engine.
C6_AudioPassthrough ==
    (entry = "create_subtitles" /\ is_audio)
    => /\ extract_calls = 0
       /\ ~tmp_audio.created
       /\ ~tmp_audio.deleted
       /\ audio_path \in {"none", "input"}

---------------------------------------------------------------------------
(* C7 *)

\* C7: every failure raised in model loading, extraction or transcription
\* is caught inside create_subtitles and reported as a message; the call
\* returns without an exception propagating, and no later pipeline step has
\* run.
C7_FailuresAreCaught ==
    (PipelineDone /\ failed_at \in {"load", "extract", "transcribe"})
    => /\ pc = "returned"
       /\ exc = "none"
       /\ Said("error")
       /\ ~Said("srt_generated") /\ ~Said("vtt_generated") /\ ~Said("language")
       /\ failed_at = "load" => (extract_calls = 0 /\ audio_path = "none")
       /\ failed_at = "extract" => (extract_calls = 1 /\ audio_path = "none")

---------------------------------------------------------------------------
(* C8 *)

\* C8: the SRT file generate_srt writes holds, for the k segments consumed
\* so far, exactly k cues of four lines; the ordinal lines are 1, 2, ..., k
\* in the order the segments were produced, whatever their timestamps, and
\* cue i carries the span and the trimmed text of segment i. When
\* generate_srt has returned, k is the number N of segments of the sequence.
C8_SrtOrdinals ==
    (entry \in {"generate_srt", "create_subtitles"} /\ segment_id >= 1)
    => LET lines == SplitLines(files["srt"].content)
           k     == Consumed
       IN  /\ Said("srt_generated") => k = Len(produced)
           /\ Len(lines) = 1 + 4 * k
           /\ \A i \in 1..k :
                /\ lines[4 * i - 3] = IntStr(i)
                /\ lines[4 * i - 2] = format_timestamp(produced[i].start, "srt").val
                                      \o <<" ", "-", "-", ">", " ">>
                                      \o format_timestamp(produced[i].end, "srt").val
                /\ lines[4 * i - 1] = strip(produced[i].text)
                /\ lines[4 * i] = <<>>

\* generate_srt has returned from a sequence of at least three segments in
\* which two have identical spans and one starts before its predecessor.
C8_Witness ==
    /\ entry = "generate_srt"
    /\ pc = "returned"
    /\ Len(produced) >= 3
    /\ \E i, j \in 1..Len(produced) :
         /\ i < j
         /\ produced[i].start = produced[j].start
         /\ produced[i].end = produced[j].end
    /\ \E i \in 1..(Len(produced) - 1) :
         TimeLess(produced[i + 1].start, produced[i].start)
    /\ SplitLines(files["srt"].content)[9] = <<"3">>

---------------------------------------------------------------------------
(* C9 *)

\* C9: for an empty segment sequence, generate_srt leaves a zero-byte file
\* and generate_vtt a file that is exactly "WEBVTT\n\n", whatever the files
\* held before.
C9_EmptySequence ==
    /\ (entry \in {"generate_srt", "create_subtitles"}
        /\ Said("srt_generated") /\ produced = <<>>)
       => (files["srt"].exists /\ Len(files["srt"].content) = 0)
    /\ (entry \in {"generate_vtt", "create_subtitles"}
        /\ Said("vtt_generated") /\ produced = <<>>)
       => (files["vtt"].exists
           /\ files["vtt"].content = <<"W", "E", "B", "V", "T", "T", "\n", "\n">>)

\* Both writers have returned from an empty sequence, over files that
\* existed and were not empty.
C9_Witness ==
    /\ entry = "create_subtitles"
    /\ pc = "returned"
    /\ produced = <<>>
    /\ Said("srt_generated")
    /\ Said("vtt_generated")
    /\ old_files["srt"].exists /\ Len(old_files["srt"].content) > 0
    /\ old_files["vtt"].exists /\ Len(old_files["vtt"].content) > 0
    /\ Len(files["srt"].content) = 0

=============================================================================
